---------------------------- MODULE Spec2Model ----------------------------
(***************************************************************************)
(* The YouTube proxy gateway in its three deployments:                     *)
(*   "youtubei" : src/unnamed/part_000      (youtubei.js / Innertube)      *)
(*   "ytdlp"    : src/index.js lines 1-157   (yt-dlp-exec, file cache)     *)
(*   "playdl"   : src/index.js lines 159-304 (play-dl, piped streams)      *)
(* A process runs one deployment; every request is one run of one route    *)
(* handler, cut at its awaits.                                             *)
(***************************************************************************)
EXTENDS Integers, Sequences, FiniteSets, TLC

\* ---------------------------------------------------------------- bounds
\* Number of client requests in one behaviour.
NumReq == 2
\* Longest format list the platform answers with, where the lists range over
\* every MIME type and bitrate.
MaxFormats == 3
\* Largest bitrate value in a format.
MaxBitrate == 2
\* Longest format list the platform answers with, where the lists range over
\* every url and decipher.
MaxResolveFormats == 2

\* ------------------------------------------------------------ JS values
\* undefined / null, and a present value v held as <<v>>.
Undefined == <<>>
Null == <<>>
Some(v) == <<v>>

\* JavaScript truthiness of an optional string: undefined and "" are falsy.
Truthy(v) == v # Undefined /\ v[1] # ""

Req == 1..NumReq
Variants == {"youtubei", "ytdlp", "playdl"}
Endpoints == {"audio-url", "stream", "download"}

\* Route parameters the clients send: 11, 5 and 12 characters.
VideoIds == {"dQw4w9WgXcQ", "short", "dQw4w9WgXcQ0"}

\* --------------------------------------------------------- stream formats
\* MIME types are character sequences so that includes('audio') is a real
\* substring test.
AudioWebm == <<"a", "u", "d", "i", "o", "/", "w", "e", "b", "m">>
VideoMp4 == <<"v", "i", "d", "e", "o", "/", "m", "p", "4">>
AudioNeedle == <<"a", "u", "d", "i", "o">>
\* a MIME type that holds the needle, but not at its start
XAudio == <<"x", "-", "a", "u", "d", "i", "o">>
\* a MIME type that holds only a part of the needle
Audi == <<"a", "u", "d", "i">>

MimeTypes == {Undefined, Some(AudioWebm), Some(VideoMp4), Some(XAudio), Some(Audi)}
Bitrates == {Undefined} \cup {Some(b) : b \in 0..MaxBitrate}
DirectUrls == {Undefined, Some(""), Some("U1"), Some("U2")}
Ciphers == {Undefined, Some("S1")}

\* One StreamFormat: mime_type / mimeType, bitrate, url, and the decipher
\* capability (present when the platform obfuscates the URL).
Format(m, b, u, d) == [mime_type |-> m, bitrate |-> b, url |-> u, decipher |-> d]

\* Lists of at most n formats drawn from F.
ListsOf(F, n) == UNION {[1..k -> F] : k \in 0..n}

\* String.prototype.includes
Includes(s, needle) ==
    \E i \in 1..(Len(s) - Len(needle) + 1) : SubSeq(s, i, i + Len(needle) - 1) = needle

\* f.mime_type?.includes('audio')
IsAudio(f) == f.mime_type # Undefined /\ Includes(f.mime_type[1], AudioNeedle)

\* (x.bitrate || 0)
BitrateOf(f) == IF f.bitrate = Undefined THEN 0 ELSE f.bitrate[1]

\* The comparator (a, b) => (b.bitrate || 0) - (a.bitrate || 0)
CompareMutAscending(a, b) == BitrateOf(a) - BitrateOf(b)
Compare(a, b) == BitrateOf(b) - BitrateOf(a)

\* Array.prototype.filter over a list of formats, kept as the indices of the
\* elements it keeps (the elements are objects: an index is their identity).
Filter(formats) ==
    SelectSeq([i \in 1..Len(formats) |-> i], LAMBDA i : IsAudio(formats[i]))

\* Array.prototype.sort is stable: x goes behind every element that does not
\* sort after it.
InsertMutUnstable(formats, sorted, x) ==
    LET before == SelectSeq(sorted, LAMBDA e : Compare(formats[e], formats[x]) < 0)
        after == SelectSeq(sorted, LAMBDA e : Compare(formats[e], formats[x]) >= 0)
    IN  before \o <<x>> \o after
Insert(formats, sorted, x) ==
    LET before == SelectSeq(sorted, LAMBDA e : Compare(formats[e], formats[x]) <= 0)
        after == SelectSeq(sorted, LAMBDA e : Compare(formats[e], formats[x]) > 0)
    IN  before \o <<x>> \o after

RECURSIVE Sort(_, _)
Sort(formats, idx) ==
    IF idx = <<>> THEN <<>>
    ELSE Insert(formats, Sort(formats, SubSeq(idx, 1, Len(idx) - 1)), idx[Len(idx)])

\* list?.filter(...)?.sort(...)[0] : the index of the selected format, 0 for
\* undefined.
SelectFormat(list) ==
    IF list = Undefined THEN 0
    ELSE LET sorted == Sort(list[1], Filter(list[1]))
         IN  IF sorted = <<>> THEN 0 ELSE sorted[1]


\* ------------------------------------------------------- platform answers
\* What getBasicInfo / video_info resolve with: the format list
\* (info.streaming_data?.adaptive_formats, info.format), undefined when the
\* answer carries none.

\* Every list over formats that differ in MIME type (missing, video/mp4,
\* x-audio, audi) and bitrate.
SelectInfos ==
    {Undefined} \cup
    {Some(l) : l \in ListsOf({Format(m, b, Some("U1"), Undefined) :
                                 m \in MimeTypes \ {Some(AudioWebm)}, b \in Bitrates}, MaxFormats)}

\* Every list of one or two formats that differ in URL and decipher.
ResolveInfos ==
    {Undefined} \cup
    {Some(l) : l \in ListsOf({Format(m, Some(1), u, d) :
                                 m \in {Some(AudioWebm), Some(VideoMp4)},
                                 u \in DirectUrls, d \in Ciphers}, MaxResolveFormats)}

AnyInfos == SelectInfos \cup ResolveInfos

\* The answers of the end-to-end scenarios: 1 (direct URLs), 3 (video only),
\* 4 (decipher, no direct URL); an audio format with neither; no list.
ScenarioInfos ==
    { Some(<<Format(Some(VideoMp4), Some(2), Some("U2"), Undefined),
             Format(Some(AudioWebm), Some(1), Some("U1"), Undefined)>>),
      Some(<<Format(Some(VideoMp4), Some(1), Some("U2"), Undefined)>>),
      Some(<<Format(Some(AudioWebm), Undefined, Undefined, Some("S1"))>>),
      Some(<<Format(Some(AudioWebm), Some(1), Undefined, Undefined)>>),
      Undefined }

\* play-dl's formats are plain data: none carries a decipher method.
NoDecipher(list) ==
    IF list = Undefined THEN TRUE
    ELSE \A i \in 1..Len(list[1]) : list[1][i].decipher = Undefined

\* ------------------------------------------------------------------ state
VARIABLES
    variant,    \* the deployment this process runs
    boot,       \* "init": the startup initYT() is pending; "ready" / "caught":
                \* app.listen was called from .then / from .catch
    yt,         \* part_000: let yt = null
    pc,         \* per request: where its handler is suspended
    endpoint,   \* per request: the route it came in on
    videoId,    \* per request: req.params.videoId
    youtube,    \* per request: const youtube = await initYT()
    info,       \* per request: the format list of const info
    format,     \* per request: const format, as an index into info (0: undefined)
    resp,       \* per request: the response written so far
    calls,      \* per request: the backend calls made on its behalf, in order
    peers,      \* per request: the requests whose Innertube.create was pending
                \* at some moment while its own was
    player,     \* per request: the session whose player format.decipher was given
    files,      \* index.js: the names in DOWNLOADS_DIR
    upstream,   \* per request: the play-dl stream, stream.stream
    conn        \* per request: the client connection behind res

vars == <<variant, boot, yt, pc, endpoint, videoId, youtube, info, format, resp, calls,
          peers, player, files, upstream, conn>>

\* The variables only part_000 writes.
ytVars == <<boot, yt, youtube, peers, player>>

\* A session instance, named after the caller whose Innertube.create made it
\* (0 is the startup call).
Session(c) == <<"Innertube", c>>

\* ------------------------------------------------------------- responses
NoResp == [status |-> 0, kind |-> "none", url |-> "", videoId |-> "", error |-> ""]
\* res.json({ url, videoId })
JsonUrl(u, id) == [status |-> 200, kind |-> "json", url |-> u, videoId |-> id, error |-> ""]
\* res.status(code).json({ error: msg })
JsonError(code, msg) == [status |-> code, kind |-> "json", url |-> "", videoId |-> "", error |-> msg]
\* res.status(code).send(msg)
Send(code, msg) == [status |-> code, kind |-> "text", url |-> "", videoId |-> "", error |-> msg]
\* res.redirect(u)
Redirect(u) == [status |-> 302, kind |-> "redirect", url |-> u, videoId |-> "", error |-> ""]

\* e.message of the rejections and throws of the libraries
CreateError == "session unavailable"
InfoError == "video unavailable"
DecipherError == "decipher failed"

\* !videoId || videoId.length !== 11, negated
ValidIdMutAtMost(id) == Len(id) <= 11
ValidId(id) == id # "" /\ Len(id) = 11

\* format.decipher(youtube.session.player): the URL depends on the format's
\* ciphered signature and on the session whose player deciphers it.
Decipher(f, session) == "deciphered:" \o f.decipher[1] \o "@" \o ToString(session[2])

Inflight == {r \in Req : pc[r] = "creating"}

\* ------------------------------------------------- part_000: the session
\* Lines 138-141: the startup initYT() resolves; yt is assigned (line 20) and
\* the server starts listening.
StartupResolve ==
    /\ variant = "youtubei" /\ boot = "init"
    /\ yt' = Session(0)
    /\ boot' = "ready"
    /\ UNCHANGED <<variant, pc, endpoint, videoId, youtube, info, format, resp, calls, peers,
                 player, files, upstream, conn>>

\* Lines 142-147: the startup initYT() rejects; yt is not assigned and the
\* server starts listening from the catch.
StartupReject ==
    /\ variant = "youtubei" /\ boot = "init"
    /\ boot' = "caught"
    /\ UNCHANGED <<variant, yt, pc, endpoint, videoId, youtube, info, format, resp, calls, peers,
                 player, files, upstream, conn>>

\* Lines 60-70 and 92-102: the handler up to its first pending await. A bad
\* id is answered at once; otherwise initYT() (lines 17-27) either starts
\* Innertube.create, when yt is null, or returns yt, and then getBasicInfo is
\* called on it.
YtReceiveMutCached(r, ep, id) ==
    /\ variant = "youtubei" /\ boot # "init"
    /\ pc[r] = "idle"
    /\ ep \in {"audio-url", "stream"}
    /\ endpoint' = [endpoint EXCEPT ![r] = ep]
    /\ videoId' = [videoId EXCEPT ![r] = id]
    /\ LET earlier == {q \in Req : /\ pc[q] = "done" /\ videoId[q] = id /\ endpoint[q] = ep
                                    /\ resp[q].status \in {200, 302}}
       IN  IF ~ValidId(id)
           THEN /\ resp' = [resp EXCEPT ![r] = IF ep = "audio-url"
                                                THEN JsonError(400, "Invalid video ID")
                                                ELSE Send(400, "Invalid video ID")]
                /\ pc' = [pc EXCEPT ![r] = "done"]
                /\ UNCHANGED <<youtube, calls, peers>>
           ELSE IF earlier # {}
           THEN /\ resp' = [resp EXCEPT ![r] = resp[CHOOSE q \in earlier : TRUE]]
                /\ pc' = [pc EXCEPT ![r] = "done"]
                /\ UNCHANGED <<youtube, calls, peers>>
           ELSE IF yt = Null
           THEN /\ pc' = [pc EXCEPT ![r] = "creating"]
                /\ calls' = [calls EXCEPT ![r] = <<"initYT", "Innertube.create">>]
                /\ peers' = [q \in Req |-> IF q = r THEN Inflight
                                           ELSE IF q \in Inflight THEN peers[q] \cup {r}
                                           ELSE peers[q]]
                /\ UNCHANGED <<youtube, resp>>
           ELSE /\ pc' = [pc EXCEPT ![r] = "fetching"]
                /\ youtube' = [youtube EXCEPT ![r] = yt]
                /\ calls' = [calls EXCEPT ![r] = <<"initYT", "getBasicInfo">>]
                /\ UNCHANGED <<resp, peers>>
    /\ UNCHANGED <<variant, boot, yt, info, format, player, files, upstream, conn>>
YtReceive(r, ep, id) ==
    /\ variant = "youtubei" /\ boot # "init"
    /\ pc[r] = "idle"
    /\ ep \in {"audio-url", "stream"}
    /\ endpoint' = [endpoint EXCEPT ![r] = ep]
    /\ videoId' = [videoId EXCEPT ![r] = id]
    /\ IF ~ValidId(id)
       THEN /\ resp' = [resp EXCEPT ![r] = IF ep = "audio-url"
                                            THEN JsonError(400, "Invalid video ID")
                                            ELSE Send(400, "Invalid video ID")]
            /\ pc' = [pc EXCEPT ![r] = "done"]
            /\ UNCHANGED <<youtube, calls, peers>>
       ELSE IF yt = Null
       THEN /\ pc' = [pc EXCEPT ![r] = "creating"]
            /\ calls' = [calls EXCEPT ![r] = <<"initYT", "Innertube.create">>]
            /\ peers' = [q \in Req |-> IF q = r THEN Inflight
                                       ELSE IF q \in Inflight THEN peers[q] \cup {r}
                                       ELSE peers[q]]
            /\ UNCHANGED <<youtube, resp>>
       ELSE /\ pc' = [pc EXCEPT ![r] = "fetching"]
            /\ youtube' = [youtube EXCEPT ![r] = yt]
            /\ calls' = [calls EXCEPT ![r] = <<"initYT", "getBasicInfo">>]
            /\ UNCHANGED <<resp, peers>>
    /\ UNCHANGED <<variant, boot, yt, info, format, player, files, upstream, conn>>

\* Lines 20-26, 69-70: Innertube.create resolves for the request that called
\* it; yt is assigned the new instance, initYT returns it and getBasicInfo is
\* called on it.
InitYTResolve(r) ==
    /\ pc[r] = "creating"
    /\ yt' = Session(r)
    /\ youtube' = [youtube EXCEPT ![r] = Session(r)]
    /\ pc' = [pc EXCEPT ![r] = "fetching"]
    /\ calls' = [calls EXCEPT ![r] = Append(@, "getBasicInfo")]
    /\ UNCHANGED <<variant, boot, endpoint, videoId, info, format, resp, peers,
                 player, files, upstream, conn>>

\* The catch blocks, lines 85-88 and 124-129.
Caught(ep, msg) ==
    IF ep = "audio-url" THEN JsonError(500, msg) ELSE Send(500, "Stream error: " \o msg)

\* Lines 20, 85-88, 124-129: Innertube.create rejects; the assignment of
\* line 20 does not happen and the handler's catch answers.
InitYTRejectMutPoison(r) ==
    /\ pc[r] = "creating"
    /\ yt' = <<"rejected", r>>
    /\ resp' = [resp EXCEPT ![r] = Caught(endpoint[r], CreateError)]
    /\ pc' = [pc EXCEPT ![r] = "done"]
    /\ UNCHANGED <<variant, boot, endpoint, videoId, youtube, info, format, calls, peers,
                 player, files, upstream, conn>>
InitYTReject(r) ==
    /\ pc[r] = "creating"
    /\ resp' = [resp EXCEPT ![r] = Caught(endpoint[r], CreateError)]
    /\ pc' = [pc EXCEPT ![r] = "done"]
    /\ UNCHANGED <<variant, boot, yt, endpoint, videoId, youtube, info, format, calls, peers,
                 player, files, upstream, conn>>

\* Lines 77-84: the audio-url answer for the selected format f (0: none).
AudioUrlAnswerMutUrlFirst(list, f, session, id, decipherThrows) ==
    IF f # 0 /\ Truthy(list[1][f].url)
    THEN JsonUrl(list[1][f].url[1], id)
    ELSE IF f # 0 /\ list[1][f].decipher # Undefined
    THEN IF decipherThrows THEN JsonError(500, DecipherError)
         ELSE JsonUrl(Decipher(list[1][f], session), id)
    ELSE JsonError(500, "No audio format found")
AudioUrlAnswer(list, f, session, id, decipherThrows) ==
    IF f # 0 /\ list[1][f].decipher # Undefined
    THEN IF decipherThrows THEN JsonError(500, DecipherError)
         ELSE JsonUrl(Decipher(list[1][f], session), id)
    ELSE IF f # 0 /\ Truthy(list[1][f].url)
    THEN JsonUrl(list[1][f].url[1], id)
    ELSE JsonError(500, "No audio format found")

\* Lines 109-128: the stream answer for the selected format f (0: none).
StreamAnswer(list, f, session, decipherThrows) ==
    IF f = 0 THEN Send(500, "Stream error: " \o "No audio format available")
    ELSE IF list[1][f].decipher # Undefined
    THEN IF decipherThrows THEN Send(500, "Stream error: " \o DecipherError)
         ELSE Redirect(Decipher(list[1][f], session))
    ELSE IF Truthy(list[1][f].url)
    THEN Redirect(list[1][f].url[1])
    ELSE Send(500, "Stream error: " \o "Cannot get audio URL")

\* Lines 78 and 115: youtube.session.player, the player of the handler's own
\* const youtube (lines 69, 101), not of the module's yt.
PlayerMutGlobal(r) == yt
Player(r) == youtube[r]

\* Lines 70-84 and 102-123: getBasicInfo resolves; the format is selected and
\* the answer written, all before the next await.
GetBasicInfoResolve(r, list, decipherThrows) ==
    /\ variant = "youtubei" /\ pc[r] = "fetching"
    /\ info' = [info EXCEPT ![r] = list]
    /\ LET f == SelectFormat(list)
       IN  /\ format' = [format EXCEPT ![r] = f]
           /\ calls' = [calls EXCEPT ![r] =
                  IF f # 0 /\ list[1][f].decipher # Undefined THEN Append(@, "decipher") ELSE @]
           /\ player' = [player EXCEPT ![r] =
                  IF f # 0 /\ list[1][f].decipher # Undefined THEN Player(r) ELSE @]
           /\ resp' = [resp EXCEPT ![r] =
                  IF endpoint[r] = "audio-url"
                  THEN AudioUrlAnswer(list, f, Player(r), videoId[r], decipherThrows)
                  ELSE StreamAnswer(list, f, Player(r), decipherThrows)]
    /\ pc' = [pc EXCEPT ![r] = "done"]
    /\ UNCHANGED <<variant, boot, yt, endpoint, videoId, youtube, peers,
                 files, upstream, conn>>

\* Lines 70, 85-88 and 102, 124-129: getBasicInfo rejects.
GetBasicInfoReject(r) ==
    /\ variant = "youtubei" /\ pc[r] = "fetching"
    /\ resp' = [resp EXCEPT ![r] = Caught(endpoint[r], InfoError)]
    /\ pc' = [pc EXCEPT ![r] = "done"]
    /\ UNCHANGED <<variant, boot, yt, endpoint, videoId, youtube, info, format, calls, peers,
                 player, files, upstream, conn>>

\* Lines 133-135: the download route redirects to the stream route, whatever
\* the id.
YtDownload(r, id) ==
    /\ variant = "youtubei" /\ boot # "init"
    /\ pc[r] = "idle"
    /\ endpoint' = [endpoint EXCEPT ![r] = "download"]
    /\ videoId' = [videoId EXCEPT ![r] = id]
    /\ resp' = [resp EXCEPT ![r] = Redirect("/api/stream/" \o id)]
    /\ pc' = [pc EXCEPT ![r] = "done"]
    /\ UNCHANGED <<variant, boot, yt, youtube, info, format, calls, peers,
                 player, files, upstream, conn>>

\* -------------------------------------------- index.js 1-157: yt-dlp-exec
\* What yt-dlp prints for getUrl: lines of text, as tokens.
Stdouts == {<<"U1", "\n">>, <<" ", "U1", "\n">>, <<"U1", "\n", "U2", "\n">>}

Whitespace == {" ", "\n"}

RECURSIVE Join(_)
Join(tokens) == IF tokens = <<>> THEN "" ELSE tokens[1] \o Join(Tail(tokens))

\* String.prototype.trim: whitespace goes from both ends only.
RECURSIVE TrimStart(_)
TrimStart(tokens) ==
    IF tokens # <<>> /\ tokens[1] \in Whitespace THEN TrimStart(Tail(tokens)) ELSE tokens
RECURSIVE TrimEnd(_)
TrimEnd(tokens) ==
    IF tokens # <<>> /\ tokens[Len(tokens)] \in Whitespace
    THEN TrimEnd(SubSeq(tokens, 1, Len(tokens) - 1)) ELSE tokens
Trim(tokens) == Join(TrimEnd(TrimStart(tokens)))

\* The extensions the external downloader saves under.
Exts == {"mp3", "webm"}

\* A name in DOWNLOADS_DIR, <stem>.<ext>; every stem is an 11-character id,
\* so that f.startsWith(videoId) holds exactly of the names with that stem.
FileName(stem, ext) == [stem |-> stem, ext |-> ext]
StartsWith(f, id) == f.stem = id

\* path.join(DOWNLOADS_DIR, `${videoId}.mp3`)
OutputPath(id) == FileName(id, "mp3")
PathString(f) == "downloads/" \o f.stem \o "." \o f.ext

\* res.sendFile(path)
SendFile(f) == [status |-> 200, kind |-> "file", url |-> PathString(f), videoId |-> "", error |-> ""]

\* Lines 56-71 and 81-98: the handler up to the pending ytdlp call.
YdReceive(r, ep, id) ==
    /\ variant = "ytdlp" /\ pc[r] = "idle"
    /\ ep \in {"audio-url", "stream"}
    /\ endpoint' = [endpoint EXCEPT ![r] = ep]
    /\ videoId' = [videoId EXCEPT ![r] = id]
    /\ IF ~ValidId(id)
       THEN /\ resp' = [resp EXCEPT ![r] = IF ep = "audio-url"
                                            THEN JsonError(400, "Invalid video ID")
                                            ELSE Send(400, "Invalid video ID")]
            /\ pc' = [pc EXCEPT ![r] = "done"]
            /\ UNCHANGED calls
       ELSE /\ pc' = [pc EXCEPT ![r] = "resolving"]
            /\ calls' = [calls EXCEPT ![r] = <<"ytdlp">>]
            /\ UNCHANGED resp
    /\ UNCHANGED <<variant, ytVars, info, format, files, upstream, conn>>

\* Lines 73 and 100-101: ytdlp resolves with its output.
YtdlpUrlResolve(r, stdout) ==
    /\ variant = "ytdlp" /\ pc[r] = "resolving"
    /\ resp' = [resp EXCEPT ![r] = IF endpoint[r] = "audio-url"
                                    THEN JsonUrl(Trim(stdout), videoId[r])
                                    ELSE Redirect(Trim(stdout))]
    /\ pc' = [pc EXCEPT ![r] = "done"]
    /\ UNCHANGED <<variant, ytVars, endpoint, videoId, info, format, calls, files, upstream, conn>>

\* e.message of a failed yt-dlp run
YtdlpError == "yt-dlp failed"

\* Lines 74-77 and 102-105: ytdlp rejects.
YtdlpUrlReject(r) ==
    /\ variant = "ytdlp" /\ pc[r] = "resolving"
    /\ resp' = [resp EXCEPT ![r] = IF endpoint[r] = "audio-url"
                                    THEN JsonError(500, YtdlpError)
                                    ELSE Send(500, "Stream error")]
    /\ pc' = [pc EXCEPT ![r] = "done"]
    /\ UNCHANGED <<variant, ytVars, endpoint, videoId, info, format, calls, files, upstream, conn>>

\* Line 121: fs.existsSync(outputPath)
CachedMutOtherExt(id) == FileName(id, "webm") \in files
Cached(id) == OutputPath(id) \in files

\* Lines 109-134: the download handler up to the pending ytdlp call: a bad id
\* is answered 400, a cached file is served, otherwise the download starts.
YdDownloadReceive(r, id) ==
    /\ variant = "ytdlp" /\ pc[r] = "idle"
    /\ endpoint' = [endpoint EXCEPT ![r] = "download"]
    /\ videoId' = [videoId EXCEPT ![r] = id]
    /\ IF ~ValidId(id)
       THEN /\ resp' = [resp EXCEPT ![r] = Send(400, "Invalid video ID")]
            /\ pc' = [pc EXCEPT ![r] = "done"]
            /\ UNCHANGED calls
       ELSE IF Cached(id)
       THEN /\ resp' = [resp EXCEPT ![r] = SendFile(OutputPath(id))]
            /\ pc' = [pc EXCEPT ![r] = "done"]
            /\ UNCHANGED calls
       ELSE /\ pc' = [pc EXCEPT ![r] = "downloading"]
            /\ calls' = [calls EXCEPT ![r] = <<"ytdlp">>]
            /\ UNCHANGED resp
    /\ UNCHANGED <<variant, ytVars, info, format, files, upstream, conn>>

\* Lines 127-134: while the call is pending, the external yt-dlp process
\* saves a file named after the id, under an extension of its choice.
DownloaderWrite(r, ext) ==
    /\ variant = "ytdlp" /\ pc[r] = "downloading"
    /\ FileName(videoId[r], ext) \notin files
    /\ files' = files \cup {FileName(videoId[r], ext)}
    /\ UNCHANGED <<variant, ytVars, pc, endpoint, videoId, info, format, resp, calls, upstream, conn>>

\* Lines 137-138: files.find(f => f.startsWith(videoId)) over the listing of
\* fs.readdirSync, whose order the file system chooses: the names find may
\* return (none: undefined).
Found(dir, id) == {f \in dir : StartsWith(f, id)}

\* Lines 141-144: the directory after renameSync(actualPath, outputPath),
\* called when the two differ and actualPath exists; rename replaces a file
\* already at outputPath.
RenamedMutKeep(dir, actualPath, outputPath) == dir
RenamedMutSwapped(dir, actualPath, outputPath) ==
    IF actualPath # outputPath /\ actualPath \in dir
    THEN (dir \ {outputPath}) \cup {actualPath}
    ELSE dir
Renamed(dir, actualPath, outputPath) ==
    IF actualPath # outputPath /\ actualPath \in dir
    THEN (dir \ {actualPath}) \cup {outputPath}
    ELSE dir

\* Lines 140-148: the answer after the listing.
DownloadAnswerMutServe(found, id) == SendFile(OutputPath(id))
DownloadAnswer(found, id) ==
    IF found = {} THEN Send(500, "Download failed") ELSE SendFile(OutputPath(id))

\* Lines 136-148: ytdlp resolves; the directory is listed, the first name
\* that starts with the id is renamed to the canonical path when it differs,
\* and the canonical path is served; without such a name the answer is 500.
\* The listing, the rename and the answer are one synchronous block.
YtdlpDownloadResolve(r) ==
    /\ variant = "ytdlp" /\ pc[r] = "downloading"
    /\ LET found == Found(files, videoId[r])
           outputPath == OutputPath(videoId[r])
       IN  /\ resp' = [resp EXCEPT ![r] = DownloadAnswer(found, videoId[r])]
           /\ IF found = {}
              THEN /\ calls' = [calls EXCEPT ![r] = Append(@, "readdirSync")]
                   /\ UNCHANGED files
              ELSE \E downloadedFile \in found :
                       /\ files' = Renamed(files, downloadedFile, outputPath)
                       /\ calls' = [calls EXCEPT ![r] =
                              IF downloadedFile # outputPath /\ downloadedFile \in files
                              THEN @ \o <<"readdirSync", "renameSync">>
                              ELSE Append(@, "readdirSync")]
    /\ pc' = [pc EXCEPT ![r] = "done"]
    /\ UNCHANGED <<variant, ytVars, endpoint, videoId, info, format, upstream, conn>>

\* Lines 149-152: ytdlp rejects.
YtdlpDownloadReject(r) ==
    /\ variant = "ytdlp" /\ pc[r] = "downloading"
    /\ resp' = [resp EXCEPT ![r] = Send(500, "Download error")]
    /\ pc' = [pc EXCEPT ![r] = "done"]
    /\ UNCHANGED <<variant, ytVars, endpoint, videoId, info, format, calls, files, upstream, conn>>

\* ----------------------------------------------- index.js 159-304: play-dl
\* e.message of the failures of play-dl, and of info.format.filter when
\* info.format is undefined
PlayError == "play-dl failed"
TypeErrorMessage == "Cannot read properties of undefined (reading 'filter')"

\* Lines 207-217, 235-245, 271-281: the handlers up to their pending await.
PdReceive(r, ep, id) ==
    /\ variant = "playdl" /\ pc[r] = "idle"
    /\ endpoint' = [endpoint EXCEPT ![r] = ep]
    /\ videoId' = [videoId EXCEPT ![r] = id]
    /\ IF ~ValidId(id)
       THEN /\ resp' = [resp EXCEPT ![r] = IF ep = "audio-url"
                                            THEN JsonError(400, "Invalid video ID")
                                            ELSE Send(400, "Invalid video ID")]
            /\ pc' = [pc EXCEPT ![r] = "done"]
            /\ UNCHANGED calls
       ELSE IF ep = "audio-url"
       THEN /\ pc' = [pc EXCEPT ![r] = "fetching"]
            /\ calls' = [calls EXCEPT ![r] = <<"video_info">>]
            /\ UNCHANGED resp
       ELSE /\ pc' = [pc EXCEPT ![r] = "opening"]
            /\ calls' = [calls EXCEPT ![r] = <<"play.stream">>]
            /\ UNCHANGED resp
    /\ UNCHANGED <<variant, ytVars, info, format, files, upstream, conn>>

\* Lines 217-231: video_info resolves; info.format is filtered and sorted
\* (a TypeError when it is undefined) and the format's url answered.
VideoInfoResolve(r, list) ==
    /\ variant = "playdl" /\ pc[r] = "fetching"
    /\ NoDecipher(list)
    /\ info' = [info EXCEPT ![r] = list]
    /\ LET f == SelectFormat(list)
       IN  /\ format' = [format EXCEPT ![r] = f]
           /\ resp' = [resp EXCEPT ![r] =
                  IF list = Undefined THEN JsonError(500, TypeErrorMessage)
                  ELSE IF f # 0 /\ Truthy(list[1][f].url)
                  THEN JsonUrl(list[1][f].url[1], videoId[r])
                  ELSE JsonError(500, "No audio format found")]
    /\ pc' = [pc EXCEPT ![r] = "done"]
    /\ UNCHANGED <<variant, ytVars, endpoint, videoId, calls, files, upstream, conn>>

\* Lines 228-231: video_info rejects.
VideoInfoReject(r) ==
    /\ variant = "playdl" /\ pc[r] = "fetching"
    /\ resp' = [resp EXCEPT ![r] = JsonError(500, PlayError)]
    /\ pc' = [pc EXCEPT ![r] = "done"]
    /\ UNCHANGED <<variant, ytVars, endpoint, videoId, info, format, calls, files, upstream, conn>>

\* Lines 245-261 and 281-293: play.stream resolves; the headers are set, the
\* stream piped into res and the listeners registered.
PlayStreamResolve(r) ==
    /\ variant = "playdl" /\ pc[r] = "opening"
    /\ upstream' = [upstream EXCEPT ![r] = "open"]
    /\ pc' = [pc EXCEPT ![r] = "piping"]
    /\ UNCHANGED <<variant, ytVars, endpoint, videoId, info, format, resp, calls, files, conn>>

\* Lines 262-267 and 294-299: play.stream rejects; no header was sent yet.
PlayStreamReject(r) ==
    /\ variant = "playdl" /\ pc[r] = "opening"
    /\ resp' = [resp EXCEPT ![r] =
           IF resp[r].status = 0
           THEN Send(500, IF endpoint[r] = "stream" THEN "Stream error" ELSE "Download error")
           ELSE @]
    /\ conn' = [conn EXCEPT ![r] = "finished"]
    /\ pc' = [pc EXCEPT ![r] = "done"]
    /\ UNCHANGED <<variant, ytVars, endpoint, videoId, info, format, calls, files, upstream>>

\* The piped response once its head is written: status 200 and the bytes.
Piped == [status |-> 200, kind |-> "pipe", url |-> "", videoId |-> "", error |-> ""]

\* Lines 250, 286: a chunk arrives and pipe writes it to res; the first write
\* sends the headers.
UpstreamData(r) ==
    /\ pc[r] = "piping" /\ upstream[r] = "open" /\ conn[r] = "open"
    /\ resp[r].status = 0
    /\ resp' = [resp EXCEPT ![r] = Piped]
    /\ UNCHANGED <<variant, ytVars, pc, endpoint, videoId, info, format, calls, files, upstream, conn>>

\* Lines 250, 286: the stream ends and pipe ends res.
UpstreamEnd(r) ==
    /\ pc[r] = "piping" /\ upstream[r] = "open" /\ conn[r] = "open"
    /\ upstream' = [upstream EXCEPT ![r] = "ended"]
    /\ resp' = [resp EXCEPT ![r] = IF @.status = 0 THEN Piped ELSE @]
    /\ conn' = [conn EXCEPT ![r] = "finished"]
    /\ pc' = [pc EXCEPT ![r] = "done"]
    /\ UNCHANGED <<variant, ytVars, endpoint, videoId, info, format, calls, files>>

\* Lines 252-257 and 288-293: the stream emits 'error'; 500 is sent when no
\* header was sent, otherwise nothing is written and res stays as it is.
UpstreamErrorMutUnchecked(r) ==
    /\ pc[r] = "piping" /\ upstream[r] = "open" /\ conn[r] = "open"
    /\ upstream' = [upstream EXCEPT ![r] = "errored"]
    /\ resp' = [resp EXCEPT ![r] =
           Send(500, IF endpoint[r] = "stream" THEN "Stream error" ELSE "Download error")]
    /\ conn' = [conn EXCEPT ![r] = "finished"]
    /\ pc' = [pc EXCEPT ![r] = "done"]
    /\ UNCHANGED <<variant, ytVars, endpoint, videoId, info, format, calls, files>>
UpstreamError(r) ==
    /\ pc[r] = "piping" /\ upstream[r] = "open" /\ conn[r] = "open"
    /\ upstream' = [upstream EXCEPT ![r] = "errored"]
    /\ IF resp[r].status = 0
       THEN /\ resp' = [resp EXCEPT ![r] =
                   Send(500, IF endpoint[r] = "stream" THEN "Stream error" ELSE "Download error")]
            /\ conn' = [conn EXCEPT ![r] = "finished"]
            /\ pc' = [pc EXCEPT ![r] = "done"]
       ELSE UNCHANGED <<resp, conn, pc>>
    /\ UNCHANGED <<variant, ytVars, endpoint, videoId, info, format, calls, files>>

\* Lines 259-261: the client goes away while res is piped; the stream route
\* destroys its stream, the download route has no 'close' listener.
ClientClose(r) ==
    /\ pc[r] = "piping" /\ conn[r] = "open"
    /\ conn' = [conn EXCEPT ![r] = "closed"]
    /\ upstream' = [upstream EXCEPT ![r] =
           IF endpoint[r] = "stream" /\ @ = "open" THEN "destroyed" ELSE @]
    /\ pc' = [pc EXCEPT ![r] = "done"]
    /\ UNCHANGED <<variant, ytVars, endpoint, videoId, info, format, resp, calls, files>>

\* ------------------------------------------------------------ behaviours
\* The state once the module has run to its last line: part_000 has called
\* initYT() (line 138), the other two listen at once.
Init ==
    /\ variant \in Variants
    /\ boot = IF variant = "youtubei" THEN "init" ELSE "ready"
    /\ yt = Null
    /\ pc = [r \in Req |-> "idle"]
    /\ endpoint = [r \in Req |-> "none"]
    /\ videoId = [r \in Req |-> ""]
    /\ youtube = [r \in Req |-> Null]
    /\ info = [r \in Req |-> Undefined]
    /\ format = [r \in Req |-> 0]
    /\ resp = [r \in Req |-> NoResp]
    /\ calls = [r \in Req |-> <<>>]
    /\ peers = [r \in Req |-> {}]
    /\ player = [r \in Req |-> Null]
    /\ files = {}
    /\ upstream = [r \in Req |-> "none"]
    /\ conn = [r \in Req |-> "open"]

\* What the environment does with request r when the platform answers from
\* the set Infos.
Step(r, Infos) ==
    \/ \E ep \in Endpoints, id \in VideoIds : YtReceive(r, ep, id)
    \/ InitYTResolve(r)
    \/ InitYTReject(r)
    \/ /\ pc[r] = "fetching"
       /\ \E list \in Infos, decipherThrows \in BOOLEAN :
              GetBasicInfoResolve(r, list, decipherThrows)
    \/ GetBasicInfoReject(r)
    \/ \E id \in VideoIds : YtDownload(r, id)
    \/ \E ep \in Endpoints, id \in VideoIds : YdReceive(r, ep, id)
    \/ \E stdout \in Stdouts : YtdlpUrlResolve(r, stdout)
    \/ YtdlpUrlReject(r)
    \/ \E id \in VideoIds : YdDownloadReceive(r, id)
    \/ \E ext \in Exts : DownloaderWrite(r, ext)
    \/ YtdlpDownloadResolve(r)
    \/ YtdlpDownloadReject(r)
    \/ \E ep \in Endpoints, id \in VideoIds : PdReceive(r, ep, id)
    \/ /\ pc[r] = "fetching"
       /\ \E list \in Infos : VideoInfoResolve(r, list)
    \/ VideoInfoReject(r)
    \/ PlayStreamResolve(r)
    \/ PlayStreamReject(r)
    \/ UpstreamData(r)
    \/ UpstreamEnd(r)
    \/ UpstreamError(r)
    \/ ClientClose(r)

\* Concurrent requests, the platform answering as in the scenarios.
Next ==
    \/ StartupResolve
    \/ StartupReject
    \/ \E r \in Req : Step(r, ScenarioInfos)

Spec == Init /\ [][Next]_vars

\* One request, the platform answering with any format list.
NextOne ==
    \/ StartupResolve
    \/ StartupReject
    \/ Step(1, AnyInfos)

SpecOne == Init /\ [][NextOne]_vars

\* The yt-dlp server's download route alone, asked for two videos.
DownloadIds == VideoIds \cup {"9bZkp7q19f0"}
InitDownloads == Init /\ variant = "ytdlp"
NextDownloads ==
    \E r \in Req :
        \/ \E id \in DownloadIds : YdDownloadReceive(r, id)
        \/ \E ext \in Exts : DownloaderWrite(r, ext)
        \/ YtdlpDownloadResolve(r)
        \/ YtdlpDownloadReject(r)

SpecDownloads == InitDownloads /\ [][NextDownloads]_vars

\* ================================================================= claims
\* What the claims say of a request, read off the state.

\* r called Innertube.create (it entered initYT while yt was null).
CalledCreate(r) == Len(calls[r]) >= 2 /\ calls[r][2] = "Innertube.create"
\* r's creation attempt failed / succeeded.
CreateFailed(r) == CalledCreate(r) /\ pc[r] = "done" /\ youtube[r] = Null
CreateSucceeded(r) == CalledCreate(r) /\ youtube[r] # Null

\* ------------------------------------------------------------------- C1
\* C1 (as claimed): whatever number of requests call initYT() together while
\* yt is null, one Innertube.create call serves them all: no two
\* Innertube.create calls are ever pending at the same time.
C1_SingleFlight == Cardinality(Inflight) <= 1

\* ------------------------------------------------------------------- C2
\* C2 (as claimed): two requests whose session creations overlapped share one
\* outcome: once both are through initYT(), both hold the same session
\* instance or both have failed.
C2_SharedOutcome ==
    \A a, b \in Req :
        (a # b /\ b \in peers[a] /\ pc[a] # "creating" /\ pc[b] # "creating")
            => \/ CreateFailed(a) /\ CreateFailed(b)
               \/ CreateSucceeded(a) /\ CreateSucceeded(b) /\ youtube[a] = youtube[b]

\* ------------------------------------------------------------------- C3
\* C3: a failed session creation is answered to its caller (500 with the
\* failure's message for a request, the catch for the startup call) and
\* leaves yt as it was, so a null yt stays null; while yt is null the next
\* initYT() call starts a creation of its own; and a creation that succeeds
\* makes its session the shared one.
C3_NoPoisoning ==
    [][ /\ \A r \in Req :
            /\ (pc[r] = "creating" /\ pc'[r] = "done")
                   => /\ yt' = yt
                      /\ (yt = Null => yt' = Null)
                      /\ resp'[r].status = 500
                      /\ resp'[r].error \in {CreateError, "Stream error: " \o CreateError}
            /\ (pc[r] = "idle" /\ pc'[r] # "idle" /\ variant = "youtubei" /\ yt = Null
                  /\ endpoint'[r] # "download" /\ Len(videoId'[r]) = 11)
                   => /\ pc'[r] = "creating"
                      /\ calls'[r] = <<"initYT", "Innertube.create">>
            /\ (pc[r] = "creating" /\ pc'[r] = "fetching")
                   => /\ yt' # Null
                      /\ youtube'[r] = yt'
        /\ (boot = "init" /\ boot' = "caught") => (yt = Null /\ yt' = Null)
      ]_vars

\* A startup failure, then a request whose creation failed and was answered
\* 500, then a request that created the session on its own.
C3_Witness ==
    /\ boot = "caught"
    /\ \E a, b \in Req :
           /\ CreateFailed(a) /\ resp[a].status = 500
           /\ CreateSucceeded(b) /\ peers[b] = {} /\ yt = youtube[b]

\* ------------------------------------------------------------------- C4
\* C4 (as claimed): once yt holds a session instance it is never null again
\* and never another instance.
C4_SessionStable == [][yt # Null => yt' = yt]_vars

\* ------------------------------------------------------------------- C5
\* C5: on the audio-url and stream routes of every deployment, a request whose
\* videoId is not 11 characters long is answered 400 and no backend call
\* (initYT, Innertube.create, getBasicInfo, ytdlp, video_info, play.stream) is
\* made on its behalf.
C5_ValidationFirst ==
    \A r \in Req :
        (pc[r] # "idle" /\ endpoint[r] \in {"audio-url", "stream"} /\ Len(videoId[r]) # 11)
            => /\ pc[r] = "done"
               /\ resp[r].status = 400
               /\ calls[r] = <<>>
               /\ youtube[r] = Null

\* Bad ids answered 400 on the stream route while the session is still null,
\* so that a valid id would have started a creation.
C5_Witness ==
    /\ variant = "youtubei" /\ boot = "caught" /\ yt = Null
    /\ \A r \in Req : /\ endpoint[r] \in {"audio-url", "stream"}
                      /\ Len(videoId[r]) \in {5, 12}
                      /\ resp[r].status = 400

\* ------------------------------------------------------------------- C6
\* C6 (as claimed): in every deployment, a download request whose videoId is
\* not 11 characters long is answered 400.
C6_DownloadBadId ==
    \A r \in Req :
        (pc[r] = "done" /\ endpoint[r] = "download" /\ Len(videoId[r]) # 11)
            => resp[r].status = 400

\* ------------------------------------------------------------------- C7
\* The claim's own reading of a format: its MIME type holds "audio"; its
\* bitrate, 0 when missing.
HoldsAudio(f) ==
    /\ f.mime_type # <<>>
    /\ \E i \in 1..Len(f.mime_type[1]) :
           /\ i + 4 <= Len(f.mime_type[1])
           /\ <<f.mime_type[1][i], f.mime_type[1][i + 1], f.mime_type[1][i + 2],
                f.mime_type[1][i + 3], f.mime_type[1][i + 4]>> = <<"a", "u", "d", "i", "o">>
BitrateOr0(f) == IF f.bitrate = <<>> THEN 0 ELSE f.bitrate[1]
\* The formats of the list r's handler received.
ListOf(r) == IF info[r] = Undefined THEN <<>> ELSE info[r][1]

\* C7: the selected format, if any, is an audio format of the list whose
\* bitrate (0 when missing) is at least that of every audio format of the
\* list; and a format is selected exactly when the list holds an audio format.
C7_MaximalAudio ==
    \A r \in Req :
        LET list == ListOf(r)
            audio == {j \in 1..Len(list) : HoldsAudio(list[j])}
        IN  /\ format[r] # 0 <=> audio # {}
            /\ format[r] # 0 =>
                   /\ format[r] \in audio
                   /\ \A j \in audio : BitrateOr0(list[format[r]]) >= BitrateOr0(list[j])

\* A list of three in which the best audio format comes after a video format
\* of higher bitrate and an audio format of lower bitrate.
C7_Witness ==
    \E r \in Req :
        LET list == ListOf(r)
        IN  /\ pc[r] = "done" /\ Len(list) = 3 /\ format[r] = 3
            /\ ~HoldsAudio(list[1]) /\ BitrateOr0(list[1]) > BitrateOr0(list[3])
            /\ HoldsAudio(list[2]) /\ BitrateOr0(list[2]) < BitrateOr0(list[3])

\* ------------------------------------------------------------------- C8
\* C8: among the audio formats that share the highest bitrate (0 when
\* missing), the selected one is the one of smallest index in the list.
C8_FirstOfTies ==
    \A r \in Req :
        LET list == ListOf(r)
        IN  format[r] # 0 =>
                \A j \in 1..(format[r] - 1) :
                    HoldsAudio(list[j]) => BitrateOr0(list[j]) < BitrateOr0(list[format[r]])

\* Three audio formats, the last two tied at the top (equal as values, two
\* objects by position): the first of the tied pair is selected.
C8_Witness ==
    \E r \in Req :
        LET list == ListOf(r)
        IN  /\ pc[r] = "done" /\ Len(list) = 3 /\ format[r] = 2
            /\ \A j \in 1..3 : HoldsAudio(list[j])
            /\ BitrateOr0(list[2]) = BitrateOr0(list[3])
            /\ list[2] = list[3]
            /\ BitrateOr0(list[1]) < BitrateOr0(list[2])

\* ------------------------------------------------------------------- C9
\* r's answer is a success of its route.
Succeeded(r) ==
    \/ endpoint[r] = "audio-url" /\ resp[r].status = 200 /\ resp[r].kind = "json"
    \/ endpoint[r] = "stream" /\ resp[r].status = 302 /\ resp[r].kind = "redirect"

\* C9: when the selected format carries decipher, the URL answered is the
\* result of decipher on the request's session (a direct URL beside it is not
\* used), or the answer is 500 with decipher's own failure; when it carries
\* no decipher but a direct URL, that URL is answered unchanged; the audio-url
\* answer holds the requested videoId.
C9_UrlOfCandidate ==
    \A r \in Req :
        (pc[r] = "done" /\ format[r] # 0) =>
            LET f == ListOf(r)[format[r]]
            IN  /\ f.decipher # <<>> =>
                       \/ Succeeded(r) /\ resp[r].url = Decipher(f, youtube[r])
                       \/ resp[r].status = 500
                            /\ resp[r].error \in {DecipherError, "Stream error: " \o DecipherError}
                /\ (f.decipher = <<>> /\ f.url # <<>> /\ f.url[1] # "") =>
                       Succeeded(r) /\ resp[r].url = f.url[1]
                /\ (Succeeded(r) /\ endpoint[r] = "audio-url") => resp[r].videoId = videoId[r]

\* An audio-url request whose selected format carries decipher and a direct
\* URL, answered with the deciphered URL.
C9_Witness ==
    \E r \in Req :
        /\ pc[r] = "done" /\ format[r] # 0 /\ endpoint[r] = "audio-url"
        /\ LET f == ListOf(r)[format[r]]
           IN  /\ f.decipher # <<>> /\ f.url # <<>> /\ f.url[1] # ""
               /\ resp[r].status = 200
               /\ resp[r].url = Decipher(f, youtube[r])
               /\ resp[r].url # f.url[1]
               /\ resp[r].videoId = videoId[r]

\* ------------------------------------------------------------------ C10
\* The list r received holds no audio format.
NoAudioFormat(r) ==
    /\ pc[r] = "done" /\ info[r] # Undefined
    /\ \A j \in 1..Len(ListOf(r)) : ~HoldsAudio(ListOf(r)[j])
\* The format selected for r has neither decipher nor a direct URL.
UrlUnresolvable(r) ==
    /\ pc[r] = "done" /\ format[r] # 0
    /\ ListOf(r)[format[r]].decipher = <<>>
    /\ (ListOf(r)[format[r]].url = <<>> \/ ListOf(r)[format[r]].url = <<"">>)

\* C10 (as claimed): both conditions fail the resolution, and on one route
\* the failure answered for a list without audio format differs from the
\* failure answered for a selected format without decipher and URL.
C10_DistinctFailures ==
    \A a, b \in Req :
        /\ (NoAudioFormat(a) \/ UrlUnresolvable(a)) => resp[a].status = 500
        /\ (NoAudioFormat(a) /\ UrlUnresolvable(b) /\ endpoint[a] = endpoint[b])
               => resp[a].error # resp[b].error

\* ------------------------------------------------------------------ C11
\* C11: in every request, whatever session initializations run beside it, the
\* session whose player is given to decipher is the instance getBasicInfo was
\* called on for that request, and a deciphered URL answered is decipher's
\* result for that instance.
C11_DecipherOnFetchingSession ==
    \A r \in Req :
        player[r] # Null =>
            /\ "getBasicInfo" \in {calls[r][i] : i \in 1..Len(calls[r])}
            /\ player[r] = youtube[r]
            /\ Succeeded(r) => resp[r].url = Decipher(ListOf(r)[format[r]], player[r])

\* A request deciphered on the session it fetched on after another request's
\* Innertube.create had replaced the shared session.
C11_Witness ==
    \E r \in Req :
        /\ player[r] # Null /\ player[r] = youtube[r]
        /\ yt # Null /\ yt # youtube[r]
        /\ Succeeded(r)

\* ------------------------------------------------------------------ C12
\* r's entries in the log of calls.
Called(r) == {calls[r][i] : i \in 1..Len(calls[r])}
\* r is a download request that was answered with a file.
Served(r) == pc[r] = "done" /\ endpoint[r] = "download" /\ resp[r].kind = "file"

\* C12: once a download request for an id was answered with its file, every
\* download request for that id received afterwards is answered at once with
\* the same canonical path <videoId>.mp3, without a call of the downloader
\* and without a change of the directory.
C12_CacheHitIdempotent ==
    [][ \A a, b \in Req :
            (/\ a # b /\ Served(a)
             /\ pc[b] = "idle" /\ pc'[b] # "idle"
             /\ endpoint'[b] = "download" /\ videoId'[b] = videoId[a])
                => /\ pc'[b] = "done"
                   /\ resp'[b] = SendFile(OutputPath(videoId[a]))
                   /\ resp'[b] = resp[a]
                   /\ calls'[b] = <<>>
                   /\ files' = files
      ]_vars

\* Two requests for one id, one after the other: the downloader was called
\* once, for the first, and both were answered with the same path.
C12_Witness ==
    \E a, b \in Req :
        /\ a # b /\ Served(a) /\ Served(b) /\ videoId[a] = videoId[b]
        /\ "ytdlp" \in Called(a)
        /\ calls[b] = <<>>
        /\ resp[a] = resp[b]
        /\ Cardinality({r \in Req : "ytdlp" \in Called(r)}) = 1

\* ------------------------------------------------------------------ C13
\* C13: when ytdlp resolves and no name of the directory starts with the id,
\* the answer is 500 'Download failed', no file is served, and the directory
\* is left as it was (nothing renamed, nothing created).
C13_DownloadFailed ==
    [][ \A r \in Req :
            (/\ pc[r] = "downloading" /\ pc'[r] = "done"
             /\ "readdirSync" \in {calls'[r][i] : i \in 1..Len(calls'[r])}
             /\ \A f \in files : ~StartsWith(f, videoId[r]))
                => /\ resp'[r] = Send(500, "Download failed")
                   /\ resp'[r].kind # "file"
                   /\ files' = files
                   /\ "renameSync" \notin {calls'[r][i] : i \in 1..Len(calls'[r])}
      ]_vars

\* A download that resolved and was answered 'Download failed' while the
\* directory held a file of another video.
C13_Witness ==
    \E r \in Req :
        /\ pc[r] = "done" /\ resp[r] = Send(500, "Download failed")
        /\ "readdirSync" \in Called(r)
        /\ files # {}
        /\ \A f \in files : ~StartsWith(f, videoId[r])

\* ------------------------------------------------------------------ C14
\* r is a request of the play-dl server that pipes a stream into res.
Proxied(r) == variant = "playdl" /\ endpoint[r] \in {"stream", "download"}

\* C14: on the piping routes, a response whose headers were sent is never
\* written a status or an error body again: 500 is written, for an upstream
\* error as for a setup error, only to a response without headers, and no
\* response gets a second status.
C14_NoStatusAfterHeaders ==
    [][ \A r \in Req :
            /\ (Proxied(r) /\ resp[r].status # 0) => resp'[r] = resp[r]
            /\ (Proxied(r) /\ resp'[r] # resp[r] /\ resp'[r].status = 500)
                   => /\ resp[r] = NoResp
                      /\ resp'[r].error \in {"Stream error", "Download error"}
      ]_vars

\* The stream failed after the head and some bytes had gone out: the response
\* still carries its 200 and no error text.
C14_Witness ==
    \E r \in Req :
        /\ Proxied(r) /\ upstream[r] = "errored"
        /\ resp[r] = Piped

\* ------------------------------------------------------------------ C15
\* The steps the server itself can take for a piped request r: the
\* continuation of play.stream and the listeners of the stream. The client's
\* going away is not among them.
ServerStep(r) ==
    \/ PlayStreamResolve(r)
    \/ PlayStreamReject(r)
    \/ UpstreamData(r)
    \/ UpstreamEnd(r)
    \/ UpstreamError(r)

\* C15 (as claimed): after the upstream stream has emitted an error, the
\* response is ended (500 when no header was sent) or its connection is
\* terminated, or else the server still has a step to take for it: no
\* response is left open with nothing on the server's side to end it.
C15_ErrorEndsResponse ==
    \A r \in Req :
        (Proxied(r) /\ upstream[r] = "errored" /\ conn[r] = "open")
            => ENABLED ServerStep(r)

\* ------------------------------------------------------------------ C16
\* C16 (as claimed): on both piping routes, no upstream stream is open once
\* the client connection of its response has closed.
C16_CancelClosesUpstream ==
    \A r \in Req :
        (Proxied(r) /\ conn[r] = "closed") => upstream[r] # "open"

\* ------------------------------------------------------------------ C17
\* r is an audio-url or stream request of part_000 with a valid id.
Resolution(r) ==
    /\ variant = "youtubei" /\ endpoint[r] \in {"audio-url", "stream"}
    /\ pc[r] # "idle" /\ Len(videoId[r]) = 11
\* What a handler keeps of request q.
Locals(q) == <<endpoint[q], videoId[q], youtube[q], info[q], format[q], resp[q], calls[q],
               player[q]>>

C18_ServedFileExists ==
    [][ \A r \in Req :
            (endpoint'[r] = "download" /\ resp[r].kind # "file" /\ resp'[r].kind = "file")
                => LET id == videoId'[r]
                   IN  /\ Len(id) = 11
                       /\ resp'[r].url = PathString(FileName(id, "mp3"))
                       /\ FileName(id, "mp3") \in files'
                       /\ FileName(id, "mp3") \notin files =>
                              \E f \in files :
                                  /\ f.stem = id /\ f.ext # "mp3"
                                  /\ files' = (files \ {f}) \cup {FileName(id, "mp3")}
      ]_vars

\* Two downloads of different videos, both answered with their files: one
\* saved as mp3 by the downloader, the other saved under another extension
\* and renamed by the handler.
C18_Witness ==
    \E a, b \in Req :
        /\ Served(a) /\ Served(b) /\ videoId[a] # videoId[b]
        /\ "renameSync" \in Called(a)
        /\ "ytdlp" \in Called(b) /\ "renameSync" \notin Called(b)
        /\ {OutputPath(videoId[a]), OutputPath(videoId[b])} \subseteq files

\* ------------------------------------------------------------------ C19
\* C19: a canonical file <videoId>.mp3 that is in the downloads directory is
\* in it after every step of every request (cache check, download, listing,
\* rename), and a download request for its id received while it is there is
\* answered from the cache, without a call of the downloader.
C19_NeverInvalidated ==
    [][ \A id \in DownloadIds :
            OutputPath(id) \in files =>
                /\ OutputPath(id) \in files'
                /\ \A r \in Req :
                       (/\ pc[r] = "idle" /\ pc'[r] # "idle"
                        /\ endpoint'[r] = "download" /\ videoId'[r] = id)
                           => /\ resp'[r] = SendFile(OutputPath(id))
                              /\ calls'[r] = <<>>
      ]_vars

\* Two overlapping downloads of one video: the handler of each renamed a
\* file onto the canonical path, the second over the file of the first,
\* which is still there.
C19_Witness ==
    \E a, b \in Req :
        /\ a # b /\ Served(a) /\ Served(b) /\ videoId[a] = videoId[b]
        /\ "renameSync" \in Called(a) /\ "renameSync" \in Called(b)
        /\ OutputPath(videoId[a]) \in files

=============================================================================
